---- MODULE Spec2Model ----
(***************************************************************************)
(* Model of sysobjects/fills.py: the Fill value, the ListOfFills           *)
(* collection, the order fill resolvers (simple orders, lists of simple    *)
(* orders, generic orders) and the derivation of fills from a position     *)
(* series and a price series.                                              *)
(*                                                                         *)
(* Every entry point is a pure function.  Each is modelled as an operator  *)
(* and exercised by one action that draws its arguments from bounded sets, *)
(* records them in `call` and records what the function returned (or the   *)
(* exception it raised) in `ret`.                                          *)
(***************************************************************************)
EXTENDS Integers, Sequences, FiniteSets

VARIABLES pc, call, ret

vars == <<pc, call, ret>>

(***************************************************************************)
(* Bounds of the model.                                                    *)
(***************************************************************************)
MaxLen == 4
MaxDate == 2
MaxQty == 2
MaxPrice == 3
MaxOrders == 2
MaxLegs == 2
MaxLegQty == 1
MaxT == 3
MaxPos == 1
MaxSeriesPrice == 2

Dates == 1..MaxDate
Quantities == (0 - MaxQty)..MaxQty
Prices == 1..MaxPrice

(***************************************************************************)
(* Python values.                                                          *)
(***************************************************************************)
\* None, and an Optional value: None is the empty tuple, a present value v
\* is the one-element tuple <<v>>.
None == << >>
Some(v) == <<v>>
IsNone(x) == x = None

\* A float that may be NaN (pandas' marker of an undefined entry).
NaN == [nan |-> TRUE]
Num(x) == [nan |-> FALSE, val |-> x]
isna(x) == x.nan

\* The two sentinels: instances of named_object, which carries a name only.
missing_order == [kind |-> "missing order"]
not_filled == [kind |-> "not filled"]

\* @dataclass Fill; includes_slippage defaults to False.
Fill(date, qty, price, includes_slippage) ==
    [kind |-> "Fill", date |-> date, qty |-> qty, price |-> price,
     includes_slippage |-> includes_slippage]

FillDefault(date, qty, price) == Fill(date, qty, price, FALSE)

\* A raised exception, as the result of a call.
Raise(msg) == [kind |-> "Exception", msg |-> msg]

IsFill(x) == x.kind = "Fill"
IsException(x) == x.kind = "Exception"

\* Python's truth value of an object: neither named_object nor the Fill
\* dataclass defines __bool__ or __len__, so every instance is true.
Truthy(x) == TRUE

\* Python's `a or b`: a when a is true, else b.
PyOr(a, b) == IF Truthy(a) THEN a ELSE b

(***************************************************************************)
(* ListOfFills.__init__                                                    *)
(***************************************************************************)
\* The object every entry is compared with (by identity) on line 31.
FilteredOut == PyOr(missing_order, not_filled)

KeepFill(fill) == fill # FilteredOut

ListOfFills(list_of_fills) == SelectSeq(list_of_fills, KeepFill)

(***************************************************************************)
(* SimpleOrder (sysobjects.orders): a quantity and an optional limit       *)
(* price.  The three variants: zero order, market order, limit order.      *)
(***************************************************************************)
SimpleOrder(quantity, limit_price) ==
    [quantity |-> quantity, limit_price |-> limit_price]

is_zero_order(simple_order) == simple_order.quantity = 0
is_market_order(simple_order) == IsNone(simple_order.limit_price)

SimpleOrders ==
    {SimpleOrder(q, lp) : q \in Quantities,
                          lp \in {None} \cup {Some(p) : p \in Prices}}

(***************************************************************************)
(* fill_from_simple_order and its two branches.                            *)
(***************************************************************************)
fill_from_simple_market_order(simple_order, market_price, fill_datetime) ==
    Fill(fill_datetime, simple_order.quantity, market_price, FALSE)

fill_from_simple_limit_order_ge(simple_order, market_price, fill_datetime) ==
    LET limit_price == simple_order.limit_price[1]
    IN  IF simple_order.quantity > 0 /\ limit_price >= market_price
        THEN Fill(fill_datetime, simple_order.quantity, limit_price, TRUE)
        ELSE IF simple_order.quantity < 0 /\ limit_price <= market_price
        THEN Fill(fill_datetime, simple_order.quantity, limit_price, TRUE)
        ELSE not_filled

fill_from_simple_limit_order(simple_order, market_price, fill_datetime) ==
    LET limit_price == simple_order.limit_price[1]
    IN  IF simple_order.quantity > 0 /\ limit_price > market_price
        THEN Fill(fill_datetime, simple_order.quantity, limit_price, TRUE)
        ELSE IF simple_order.quantity < 0 /\ limit_price < market_price
        THEN Fill(fill_datetime, simple_order.quantity, limit_price, TRUE)
        ELSE not_filled

fill_from_simple_order_no_zero_check(simple_order, market_price, fill_datetime) ==
    IF is_market_order(simple_order)
    THEN fill_from_simple_market_order(simple_order, market_price, fill_datetime)
    ELSE fill_from_simple_limit_order(simple_order, market_price, fill_datetime)

fill_from_simple_order(simple_order, market_price, fill_datetime) ==
    IF is_zero_order(simple_order)
    THEN not_filled
    ELSE IF is_market_order(simple_order)
    THEN fill_from_simple_market_order(simple_order, market_price, fill_datetime)
    ELSE fill_from_simple_limit_order(simple_order, market_price, fill_datetime)

(***************************************************************************)
(* fill_list_of_simple_orders                                              *)
(***************************************************************************)
ResolveAll(list_of_orders, fill_datetime, market_price) ==
    [i \in 1..Len(list_of_orders) |->
        fill_from_simple_order(list_of_orders[i], market_price, fill_datetime)]

fill_list_of_simple_orders_first(list_of_orders, fill_datetime, market_price) ==
    LET list_of_fills ==
            ListOfFills(ResolveAll(list_of_orders, fill_datetime, market_price))
    IN  IF Len(list_of_fills) = 0
        THEN not_filled
        ELSE list_of_fills[1]

fill_list_of_simple_orders(list_of_orders, fill_datetime, market_price) ==
    LET list_of_fills ==
            ListOfFills(ResolveAll(list_of_orders, fill_datetime, market_price))
    IN  IF Len(list_of_fills) = 0
        THEN not_filled
        ELSE IF Len(list_of_fills) = 1
        THEN list_of_fills[1]
        ELSE Raise("List of orders has produced more than one fill")

(***************************************************************************)
(* Generic Order (sysexecution.orders.base_orders): a trade vector with    *)
(* one quantity per leg, a fill vector of the same length, an optional     *)
(* filled price and an optional fill timestamp.                            *)
(***************************************************************************)
LegQuantities == (0 - MaxLegQty)..MaxLegQty

Orders ==
    UNION {[trade : [1..n -> LegQuantities], fill : [1..n -> LegQuantities],
            filled_price : {None} \cup {Some(p) : p \in Prices},
            fill_datetime : {None} \cup {Some(d) : d \in Dates}]
           : n \in 0..MaxLegs}

\* Order.fill_equals_zero: every leg of the fill vector is zero.
fill_equals_zero(order) == \A i \in 1..Len(order.fill) : order.fill[i] = 0

fill_from_order_zero_first(order) ==
    IF fill_equals_zero(order)
    THEN missing_order
    ELSE IF Len(order.trade) # 1
    THEN Raise("Can't get fills from multi-leg orders")
    ELSE IF IsNone(order.filled_price)
    THEN missing_order
    ELSE IF IsNone(order.fill_datetime)
    THEN missing_order
    ELSE FillDefault(order.fill_datetime[1], order.fill[1], order.filled_price[1])

fill_from_order_no_zero_check(order) ==
    IF Len(order.trade) # 1
    THEN Raise("Can't get fills from multi-leg orders")
    ELSE IF IsNone(order.filled_price)
    THEN missing_order
    ELSE IF IsNone(order.fill_datetime)
    THEN missing_order
    ELSE FillDefault(order.fill_datetime[1], order.fill[1], order.filled_price[1])

fill_from_order(order) ==
    IF Len(order.trade) # 1
    THEN Raise("Can't get fills from multi-leg orders")
    ELSE IF fill_equals_zero(order)
    THEN missing_order
    ELSE IF IsNone(order.filled_price)
    THEN missing_order
    ELSE IF IsNone(order.fill_datetime)
    THEN missing_order
    ELSE FillDefault(order.fill_datetime[1], order.fill[1], order.filled_price[1])

(***************************************************************************)
(* pandas Series: a function from its index (a finite set of timestamps,   *)
(* kept in ascending order) to floats, NaN included.                       *)
(***************************************************************************)
Times == 1..MaxT
PositionValues == {NaN} \cup {Num(v) : v \in 0..MaxPos}
PriceValues == {NaN} \cup {Num(v) : v \in 1..MaxSeriesPrice}

SeriesOf(Values) == UNION {[index -> Values] : index \in SUBSET Times}

\* The price series the callers pass hold at least one price; a position
\* series may be empty.
PriceSeries == {price \in SeriesOf(PriceValues) : DOMAIN price # {}}
PositionSeries == SeriesOf(PositionValues)

Earliest(S) == CHOOSE m \in S : \A s \in S : m <= s
Latest(S) == CHOOSE m \in S : \A s \in S : s <= m

\* list(series.index): the timestamps in ascending order.
RECURSIVE IndexAsList(_)
IndexAsList(index) ==
    IF index = {}
    THEN << >>
    ELSE <<Earliest(index)>> \o IndexAsList(index \ {Earliest(index)})

\* list(series.values): the values in index order.
ValuesAsList(series) ==
    LET dates == IndexAsList(DOMAIN series)
    IN  [i \in 1..Len(dates) |-> series[dates[i]]]

\* Float subtraction: NaN when either operand is NaN.
FloatSub(a, b) == IF isna(a) \/ isna(b) THEN NaN ELSE Num(a.val - b.val)

\* Series.diff(): each entry minus the previous entry; the first is NaN.
diff(series) ==
    [t \in DOMAIN series |->
        LET before == {s \in DOMAIN series : s < t}
        IN  IF before = {} THEN NaN ELSE FloatSub(series[t], series[Latest(before)])]

\* trades[~trades.isna()]: the entries that are not NaN.
WithoutNa(series) ==
    [t \in {u \in DOMAIN series : ~isna(series[u])} |-> series[t]]

\* trades_without_na[trades_without_na != 0]: the entries that are not zero.
WithoutZeros(series) ==
    [t \in {u \in DOMAIN series : series[u] # Num(0)} |-> series[t]]

\* Series.reindex(index): the value at a timestamp of the series, NaN at any
\* other timestamp.
reindex(series, index) ==
    [t \in index |-> IF t \in DOMAIN series THEN series[t] ELSE NaN]

\* Series.reindex(index, method="ffill"): the value at the latest timestamp
\* of the series that is not after t; NaN when there is none.  The fill
\* looks at the index only: a NaN stored in the series is carried over.
reindex_ffill(series, index) ==
    [t \in index |->
        LET known == {s \in DOMAIN series : s <= t}
        IN  IF known = {} THEN NaN ELSE series[Latest(known)]]

get_valid_trades_and_aligned_prices_keep_zeros(positions, price) ==
    LET trades == diff(positions)
        trades_without_na == WithoutNa(trades)
        prices_aligned_to_trades ==
            reindex_ffill(price, DOMAIN trades_without_na)
    IN  <<trades_without_na, prices_aligned_to_trades>>

get_valid_trades_and_aligned_prices_no_ffill(positions, price) ==
    LET trades == diff(positions)
        trades_without_na == WithoutNa(trades)
        trades_without_zeros == WithoutZeros(trades_without_na)
        prices_aligned_to_trades ==
            reindex(price, DOMAIN trades_without_zeros)
    IN  <<trades_without_zeros, prices_aligned_to_trades>>

get_valid_trades_and_aligned_prices(positions, price) ==
    LET trades == diff(positions)
        trades_without_na == WithoutNa(trades)
        trades_without_zeros == WithoutZeros(trades_without_na)
        prices_aligned_to_trades ==
            reindex_ffill(price, DOMAIN trades_without_zeros)
    IN  <<trades_without_zeros, prices_aligned_to_trades>>

Shortest(a, b, c) ==
    LET ab == IF Len(a) <= Len(b) THEN Len(a) ELSE Len(b)
    IN  IF ab <= Len(c) THEN ab ELSE Len(c)

list_of_fills_from_position_series_and_prices(positions, price) ==
    LET valid == get_valid_trades_and_aligned_prices(positions, price)
        trades_as_list == ValuesAsList(valid[1])
        prices_as_list == ValuesAsList(valid[2])
        dates_as_list == IndexAsList(DOMAIN valid[2])
        list_of_fills_as_list ==
            [i \in 1..Shortest(dates_as_list, trades_as_list, prices_as_list) |->
                FillDefault(dates_as_list[i], trades_as_list[i], prices_as_list[i])]
    IN  ListOfFills(list_of_fills_as_list)

from_position_series_and_prices(positions, price) ==
    ListOfFills(list_of_fills_from_position_series_and_prices(positions, price))


(***************************************************************************)
(* Specification of the constructor alone.                                 *)
(***************************************************************************)
SeqsUpTo(S, n) == UNION {[1..k -> S] : k \in 0..n}

CtorFills == {Fill(d, 1, 1, FALSE) : d \in Dates}
CtorItems == CtorFills \cup {missing_order, not_filled}

Init ==
    /\ pc = "idle"
    /\ call = [fn |-> "none"]
    /\ ret = [kind |-> "none"]

\* The caller takes the result; the next call may start.
Return ==
    /\ pc = "done"
    /\ pc' = "idle"
    /\ call' = [fn |-> "none"]
    /\ ret' = [kind |-> "none"]

CallListOfFills ==
    /\ pc = "idle"
    /\ \E input \in SeqsUpTo(CtorItems, MaxLen) :
          /\ call' = [fn |-> "ListOfFills", list_of_fills |-> input]
          /\ ret' = [kind |-> "ListOfFills", fills |-> ListOfFills(input)]
    /\ pc' = "done"

NextCtor == CallListOfFills \/ Return

SpecCtor == Init /\ [][NextCtor]_vars

CallFillFromSimpleOrder ==
    /\ pc = "idle"
    /\ \E simple_order \in SimpleOrders, market_price \in Prices,
          fill_datetime \in Dates :
          /\ call' = [fn |-> "fill_from_simple_order",
                      simple_order |-> simple_order,
                      market_price |-> market_price,
                      fill_datetime |-> fill_datetime]
          /\ ret' = fill_from_simple_order(simple_order, market_price,
                                           fill_datetime)
    /\ pc' = "done"

NextSimpleOrder == CallFillFromSimpleOrder \/ Return

SpecSimpleOrder == Init /\ [][NextSimpleOrder]_vars

CallFillListOfSimpleOrders ==
    /\ pc = "idle"
    /\ \E list_of_orders \in SeqsUpTo(SimpleOrders, MaxOrders),
          market_price \in Prices, fill_datetime \in Dates :
          /\ call' = [fn |-> "fill_list_of_simple_orders",
                      list_of_orders |-> list_of_orders,
                      market_price |-> market_price,
                      fill_datetime |-> fill_datetime]
          /\ ret' = fill_list_of_simple_orders(list_of_orders, fill_datetime,
                                               market_price)
    /\ pc' = "done"

NextOrderList == CallFillListOfSimpleOrders \/ Return

SpecOrderList == Init /\ [][NextOrderList]_vars

CallFillFromOrder ==
    /\ pc = "idle"
    /\ \E order \in Orders :
          /\ call' = [fn |-> "fill_from_order", order |-> order]
          /\ ret' = fill_from_order(order)
    /\ pc' = "done"

NextOrder == CallFillFromOrder \/ Return

SpecOrder == Init /\ [][NextOrder]_vars

CallFromPositionSeriesAndPrices ==
    /\ pc = "idle"
    /\ \E positions \in PositionSeries, price \in PriceSeries :
          /\ call' = [fn |-> "from_position_series_and_prices",
                      positions |-> positions, price |-> price]
          /\ ret' = [kind |-> "ListOfFills",
                     fills |-> from_position_series_and_prices(positions, price)]
    /\ pc' = "done"

NextSeries == CallFromPositionSeriesAndPrices \/ Return

SpecSeries == Init /\ [][NextSeries]_vars


(***************************************************************************)
(* Properties of ListOfFills.__init__                                      *)
(***************************************************************************)
CtorDone == pc = "done" /\ call.fn = "ListOfFills"

\* The genuine Fills of a sequence, in their original order.
GenuineFills(list_of_fills) == SelectSeq(list_of_fills, IsFill)

\* C1: for every input sequence (Fills, the missing sentinel, the not filled
\* sentinel, in any order) the constructed ListOfFills holds no sentinel:
\* every member is a genuine Fill, and the genuine Fills of the input are
\* kept in their original relative order.
C1_NoSentinelInCollection ==
    CtorDone =>
        /\ \A i \in 1..Len(ret.fills) : IsFill(ret.fills[i])
        /\ ret.fills = GenuineFills(call.list_of_fills)

(***************************************************************************)
(* Properties of fill_list_of_simple_orders                                *)
(***************************************************************************)
OrderListDone == pc = "done" /\ call.fn = "fill_list_of_simple_orders"

\* An order is fillable at a market price: it is not a zero order, and it is
\* a market order or a limit order whose crossing condition holds.
Fillable(simple_order, market_price) ==
    /\ simple_order.quantity # 0
    /\ \/ IsNone(simple_order.limit_price)
       \/ /\ ~IsNone(simple_order.limit_price)
          /\ \/ /\ simple_order.quantity > 0
                /\ simple_order.limit_price[1] > market_price
             \/ /\ simple_order.quantity < 0
                /\ simple_order.limit_price[1] < market_price

FillablePositions(list_of_orders, market_price) ==
    {i \in 1..Len(list_of_orders) : Fillable(list_of_orders[i], market_price)}

\* C2: fill_list_of_simple_orders returns the not filled sentinel, without
\* raising, for every list of simple orders (of any length) in which no
\* order is fillable at the market price.
C2_NotFilledWhenNoneFillable ==
    (OrderListDone
        /\ FillablePositions(call.list_of_orders, call.market_price) = {})
    => ret = not_filled

\* C3: when exactly one order of the list is fillable, the result is the
\* Fill that fill_from_simple_order produces for that order, whatever the
\* number and position of the other (unfillable) orders.
C3_TheOneFillWhenOneFillable ==
    (OrderListDone
        /\ Cardinality(FillablePositions(call.list_of_orders,
                                         call.market_price)) = 1)
    => \E i \in FillablePositions(call.list_of_orders, call.market_price) :
          ret = fill_from_simple_order(call.list_of_orders[i],
                                       call.market_price, call.fill_datetime)

\* C4: at most one fill: when more than one order of the list is fillable
\* the call ends in an exception, so a returned Fill stands for at most one
\* fillable order.
C4_AtMostOneFill ==
    OrderListDone =>
        /\ (Cardinality(FillablePositions(call.list_of_orders,
                                          call.market_price)) > 1
               => IsException(ret))
        /\ (IsFill(ret)
               => Cardinality(FillablePositions(call.list_of_orders,
                                                call.market_price)) <= 1)

C4_Witness ==
    /\ OrderListDone
    /\ Cardinality(FillablePositions(call.list_of_orders,
                                     call.market_price)) = 2
    /\ IsException(ret)

(***************************************************************************)
(* Properties of fill_from_simple_order                                    *)
(***************************************************************************)
SimpleOrderDone == pc = "done" /\ call.fn = "fill_from_simple_order"

NonZeroLimitOrder(simple_order) ==
    simple_order.quantity # 0 /\ ~IsNone(simple_order.limit_price)

\* C5: a non-zero limit order: a buy fills iff limit_price > market_price,
\* a sell fills iff limit_price < market_price, otherwise (equal prices
\* included) the result is not filled; a Fill carries the order quantity,
\* the given fill time, the limit price (not the market price) and
\* includes_slippage = true.
C5_LimitOrderCrossing ==
    (SimpleOrderDone /\ NonZeroLimitOrder(call.simple_order)) =>
        LET q == call.simple_order.quantity
            lp == call.simple_order.limit_price[1]
            mp == call.market_price
            crosses == (q > 0 /\ lp > mp) \/ (q < 0 /\ lp < mp)
        IN  /\ IsFill(ret) <=> crosses
            /\ ~crosses => ret = not_filled
            /\ IsFill(ret) =>
                  /\ ret.qty = q
                  /\ ret.date = call.fill_datetime
                  /\ ret.price = lp
                  /\ ret.includes_slippage = TRUE

C5_Witness ==
    /\ SimpleOrderDone
    /\ NonZeroLimitOrder(call.simple_order)
    /\ call.simple_order.quantity < 0
    /\ call.simple_order.limit_price[1] < call.market_price
    /\ IsFill(ret)
    /\ ret.price # call.market_price

\* C6: dispatch: the result is a Fill or not filled, never the missing
\* sentinel; a zero order yields not filled whatever its other attributes; a
\* non-zero market order yields Fill(order quantity, market price, no
\* slippage); includes_slippage is true on a Fill iff the order is a limit
\* order.
C6_Dispatch ==
    SimpleOrderDone =>
        /\ IsFill(ret) \/ ret = not_filled
        /\ ret # missing_order
        /\ call.simple_order.quantity = 0 => ret = not_filled
        /\ (call.simple_order.quantity # 0
               /\ IsNone(call.simple_order.limit_price))
           => ret = [kind |-> "Fill", date |-> call.fill_datetime,
                     qty |-> call.simple_order.quantity,
                     price |-> call.market_price,
                     includes_slippage |-> FALSE]
        /\ IsFill(ret) =>
              (ret.includes_slippage
                  <=> ~IsNone(call.simple_order.limit_price))

C6_Witness ==
    /\ SimpleOrderDone
    /\ call.simple_order.quantity # 0
    /\ IsNone(call.simple_order.limit_price)
    /\ IsFill(ret)
    /\ ~ret.includes_slippage

(***************************************************************************)
(* Properties of fill_from_order                                           *)
(***************************************************************************)
OrderDone == pc = "done" /\ call.fn = "fill_from_order"

AllZero(v) == \A i \in 1..Len(v) : v[i] = 0

\* C7: an order whose trade vector does not have exactly one leg ends in an
\* exception, and this check comes first: also when the fill is zero, the
\* filled price is absent or the fill timestamp is absent.
C7_MultiLegRaises ==
    (OrderDone /\ Len(call.order.trade) # 1) => IsException(ret)

C7_Witness ==
    /\ OrderDone
    /\ Len(call.order.trade) = 2
    /\ AllZero(call.order.fill)
    /\ call.order.filled_price = None
    /\ call.order.fill_datetime = None
    /\ IsException(ret)

\* C8: a single-leg order: the result is the missing sentinel iff the fill
\* is zero, or the filled price is absent, or the fill timestamp is absent;
\* otherwise it is Fill(fill timestamp, filled quantity of the leg, filled
\* price) without slippage, so a Fill has a non-zero quantity.
C8_SingleLeg ==
    (OrderDone /\ Len(call.order.trade) = 1) =>
        LET incomplete == \/ call.order.fill[1] = 0
                          \/ call.order.filled_price = None
                          \/ call.order.fill_datetime = None
        IN  /\ ret = missing_order <=> incomplete
            /\ ~incomplete =>
                  ret = [kind |-> "Fill",
                         date |-> call.order.fill_datetime[1],
                         qty |-> call.order.fill[1],
                         price |-> call.order.filled_price[1],
                         includes_slippage |-> FALSE]
            /\ IsFill(ret) => ret.qty # 0

C8_Witness ==
    /\ OrderDone
    /\ Len(call.order.trade) = 1
    /\ IsFill(ret)
    /\ ret.qty = call.order.fill[1]
    /\ ret.qty # call.order.trade[1]

(***************************************************************************)
(* Properties of ListOfFills.from_position_series_and_prices               *)
(***************************************************************************)
SeriesDone == pc = "done" /\ call.fn = "from_position_series_and_prices"

\* The timestamp of the entry before t in a series.
PreviousTime(series, t) ==
    CHOOSE s \in DOMAIN series :
        /\ s < t
        /\ \A u \in DOMAIN series : u < t => u <= s

HasPrevious(series, t) == \E s \in DOMAIN series : s < t

\* The first difference of the positions is defined and non-zero at t.
IsTrade(positions, t) ==
    /\ t \in DOMAIN positions
    /\ HasPrevious(positions, t)
    /\ ~positions[t].nan
    /\ ~positions[PreviousTime(positions, t)].nan
    /\ positions[t].val # positions[PreviousTime(positions, t)].val

TradeTimes(positions) == {t \in DOMAIN positions : IsTrade(positions, t)}

\* A price is known at or before t.
HasAlignedPrice(price, t) == \E s \in DOMAIN price : s <= t

\* The latest price timestamp that is not after t.
AlignedTime(price, t) ==
    CHOOSE s \in DOMAIN price :
        /\ s <= t
        /\ \A u \in DOMAIN price : u <= t => u <= s

FillDates(fills) == {fills[i].date : i \in 1..Len(fills)}

\* C9 as stated: the number of Fills equals the number of entries of the
\* first difference of the positions that are defined, non-zero and have an
\* aligned price; a trade before the first known price produces no Fill.
C9_CountOnlyPricedTrades ==
    SeriesDone =>
        /\ Len(ret.fills) =
              Cardinality({t \in TradeTimes(call.positions) :
                              HasAlignedPrice(call.price, t)})
        /\ \A i \in 1..Len(ret.fills) :
              HasAlignedPrice(call.price, ret.fills[i].date)

\* C9 as amended: the number of Fills equals the number of entries of the
\* first difference of the positions that are defined and non-zero, with or
\* without an aligned price: there is exactly one Fill per such timestamp,
\* a trade before the first known price produces a Fill whose price is
\* undefined (NaN), and an undefined position produces no trade at its own
\* timestamp nor at the next one.
C9_CountAllTrades ==
    SeriesDone =>
        /\ Len(ret.fills) = Cardinality(TradeTimes(call.positions))
        /\ FillDates(ret.fills) = TradeTimes(call.positions)
        /\ \A i \in 1..Len(ret.fills) :
              ~HasAlignedPrice(call.price, ret.fills[i].date)
                 => ret.fills[i].price = NaN
        /\ \A i \in 1..Len(ret.fills) :
              /\ ~call.positions[ret.fills[i].date].nan
              /\ ~call.positions[PreviousTime(call.positions,
                                              ret.fills[i].date)].nan

\* A trade before the first known price is in the result with an undefined
\* price, next to a gap in the positions that produced nothing.
C9_Witness ==
    /\ SeriesDone
    /\ Len(ret.fills) = 1
    /\ ~HasAlignedPrice(call.price, ret.fills[1].date)
    /\ ret.fills[1].price = NaN
    /\ \E t \in DOMAIN call.positions : call.positions[t].nan

\* What every Fill of the result carries, but for its price: the timestamp
\* of a trade, the change of position at that timestamp, no slippage; the
\* Fills are in ascending order of timestamp.
FillsFollowTrades ==
    /\ \A i \in 1..Len(ret.fills) :
          LET t == ret.fills[i].date
          IN  /\ IsTrade(call.positions, t)
              /\ ret.fills[i].qty =
                    [nan |-> FALSE,
                     val |-> call.positions[t].val
                               - call.positions[PreviousTime(call.positions, t)].val]
              /\ ret.fills[i].includes_slippage = FALSE
    /\ \A i, j \in 1..Len(ret.fills) :
          i < j => ret.fills[i].date < ret.fills[j].date

\* C10 as stated: every Fill has the timestamp of its trade, the change of
\* position as quantity, no slippage, and as price the price at the latest
\* price timestamp that is less than or equal to the trade timestamp.
C10_PriceIsLatestKnown ==
    SeriesDone =>
        /\ FillsFollowTrades
        /\ \A i \in 1..Len(ret.fills) :
              /\ HasAlignedPrice(call.price, ret.fills[i].date)
              /\ ret.fills[i].price =
                    call.price[AlignedTime(call.price, ret.fills[i].date)]

\* C10 as amended: as stated whenever a price timestamp less than or equal
\* to the trade timestamp exists; when none exists the Fill's price is
\* undefined (NaN).  A later price is never used.
C10_PriceIsLatestKnownOrNaN ==
    SeriesDone =>
        /\ FillsFollowTrades
        /\ \A i \in 1..Len(ret.fills) :
              IF HasAlignedPrice(call.price, ret.fills[i].date)
              THEN ret.fills[i].price =
                      call.price[AlignedTime(call.price, ret.fills[i].date)]
              ELSE ret.fills[i].price = NaN

\* Two Fills: the first priced from an earlier timestamp than its own while
\* a later, different price is present; the second priced at its own
\* timestamp.
C10_Witness ==
    /\ SeriesDone
    /\ Len(ret.fills) = 2
    /\ ret.fills[1].date \notin DOMAIN call.price
    /\ HasAlignedPrice(call.price, ret.fills[1].date)
    /\ ret.fills[2].date \in DOMAIN call.price
    /\ ~ret.fills[1].price.nan
    /\ ~ret.fills[2].price.nan
    /\ ret.fills[1].price # ret.fills[2].price
    /\ ret.fills[1].qty # ret.fills[2].qty

====
